---- MODULE Spec2Model ----
(***************************************************************************)
(* A model of lib_mysqludf_preg's shared routines (preg.c) and of the      *)
(* PREG_CHECK udf (lib_mysqludf_preg_check.c).                             *)
(*                                                                         *)
(* Two specifications:                                                     *)
(*   SpecWalk  one row of a capturing udf: pregCreateOffsetsVector, then   *)
(*             pregSkipToOccurence, whose while loop is one step per       *)
(*             iteration;                                                  *)
(*   Spec      the life of one call context: init, rows, deinit, over an   *)
(*             explicit heap.                                              *)
(***************************************************************************)
EXTENDS Integers, Sequences, FiniteSets, TLC

\* ------------------------------------------------------------------ bounds
MaxSubjectLen == 3      \* longest subject string
MaxGroups == 2          \* most capture groups of a pattern
MaxOccurence == 3       \* largest occurence asked for
IntBits == 3            \* width of the C int holding occurence, scaled down
MaxAddr == 1            \* addresses the caller's rc variable may live at
MaxStrLen == 3          \* longest result string handed to the materializer
MaxPatLen == 3          \* longest raw pattern argument
MaxLength == 2          \* largest initid->max_length the host declares
MaxArgCount == 3        \* most arguments of a udf call
MaxRows == 2            \* rows evaluated per query
MaxDeInit == 2          \* calls of the deinit hook per query

NULL == 0

Chars == {"a", "b"}

Min(a, b) == IF a < b THEN a ELSE b
Max(a, b) == IF a > b THEN a ELSE b

RECURSIVE Pow2(_)
Pow2(n) == IF n = 0 THEN 1 ELSE 2 * Pow2(n - 1)

INT_MAX == Pow2(IntBits - 1) - 1
INT_MIN == 0 - Pow2(IntBits - 1)

StringsUpTo(n) == UNION {[1..k -> Chars] : k \in 0..n}

\* ------------------------------------------------- the regex engine (pcre)
\* A compiled pattern: ordered alternatives of literal words (the first
\* alternative that matches at a position wins), an optional ^ anchor, the
\* number of capture groups, and the match-step budget in force.
Words == {<<>>, <<"a">>, <<"b">>, <<"a", "b">>}
NoLimit == MaxSubjectLen + 8
Patterns ==
    [alts : {<<x>> : x \in Words} \cup {<<x, y>> : x \in Words, y \in Words},
     anchored : BOOLEAN,
     ncap : 0..MaxGroups,
     limit : {2, NoLimit}]

PCRE_ERROR_NOMATCH == -1
PCRE_ERROR_MATCHLIMIT == -8

\* word w occurs in s at 0-based position i
IsPrefixAt(w, s, i) ==
    /\ i + Len(w) <= Len(s)
    /\ \A j \in 1..Len(w) : s[i + j] = w[j]

\* Length matched by the pattern at position i of s, -1 when none does.
\* With notempty, an empty match does not count (PCRE_NOTEMPTY_ATSTART).
MatchLenAt(re, s, i, notempty) ==
    LET ok == {n \in 1..Len(re.alts) :
                  /\ IsPrefixAt(re.alts[n], s, i)
                  /\ (notempty => Len(re.alts[n]) > 0)}
    IN IF ok = {} THEN -1
       ELSE Len(re.alts[CHOOSE n \in ok : \A m \in ok : n <= m])

\* pcre_exec(re, extra, s, Len(s), 0, 0, ovector, oveccount): the leftmost
\* match of re in s taken as a whole subject (^ is the start of s).  Each
\* start position tried costs one step of the budget set through extra.
pcre_exec(re, s, oveccount) ==
    LET starts == IF re.anchored THEN {0} ELSE 0..Len(s)
        hits == {i \in starts : MatchLenAt(re, s, i, FALSE) >= 0}
        first == CHOOSE i \in hits : \A j \in hits : i <= j
    IN IF hits # {} /\ first + 1 <= re.limit
       THEN [rc |-> IF oveccount \div 3 >= re.ncap + 1
                    THEN re.ncap + 1 ELSE 0,
             ov |-> <<first, first + MatchLenAt(re, s, first, FALSE)>>,
             set |-> oveccount >= 2]
       ELSE IF hits = {} /\ Cardinality(starts) <= re.limit
       THEN [rc |-> PCRE_ERROR_NOMATCH, ov |-> <<0, 0>>, set |-> FALSE]
       ELSE [rc |-> PCRE_ERROR_MATCHLIMIT, ov |-> <<0, 0>>, set |-> FALSE]

VARIABLES
    wpc,             \* position in the row: idle, novec (no vector: the
                     \* row fails), vec, loop, exit, done
    re,              \* the compiled pattern of this row
    ovec,            \* number of ints of the offsets vector, NULL if none
    count,           \* the caller's *count
    subject,         \* subject string
    occurence,       \* the (counted down) occurence parameter
    occ0,            \* occurence as passed in
    rcaddr,          \* the pointer rc
    rc,              \* the int rc points at
    subject_offset,
    ex_subject,      \* as an offset into subject
    ovector,         \* ovector[0], ovector[1]
    ret,             \* returned pointer: [null, off]
    attempts,        \* pcre_exec calls made by this call (saturating)
    extra            \* the pcre_extra block handed to pcre_exec

VARIABLES
    gh10,            \* the build defines GH_1_0_NULL_HANDLING
    phase,           \* start, ready (init returned 0), failed (init
                     \* returned 1), closed (deinit ran), crashed
    udf,             \* which udf the query calls: none, check, string
    args0,           \* the pattern argument as the init hook saw it
    initid,          \* UDF_INIT: ptr, max_length, maybe_null
    ctx,             \* struct preg_s at initid->ptr
    heap,            \* every block ever allocated: kind, size, frees
    bufdata,         \* bytes written so far into ctx.return_buffer
    out,             \* what the last row call handed back
    last,            \* the last call and its inputs
    initret,         \* what pregInit and the init hook returned
    message,         \* the init error message
    seq,             \* lengths copied so far: strictly increasing?, last
    nrows,           \* rows evaluated
    ndeinit,         \* deinit calls made
    oob              \* accesses made to args->args, lengths, arg_type at
                     \* an index that is not below arg_count

VARIABLES
    gpc,             \* pregGetGroupNum: idle, done
    gcall,           \* its last call: pattern, args, argnum, dupOk
    gret             \* what it did: [crash, num]

gvars == <<gpc, gcall, gret>>

lvars == <<gh10, phase, udf, args0, initid, ctx, heap, bufdata, out, last,
           initret, message, seq, nrows, ndeinit, oob>>

wvars == <<wpc, re, ovec, count, subject, occurence, occ0, rcaddr, rc,
           subject_offset, ex_subject, ovector, ret, attempts, extra>>

\* ------------------------------------------------------------ pcre_extra
\* Outside a call of pregSkipToOccurence there is no block.
NoExtra == [init |-> FALSE, flags |-> {}]

\* memset(&extra, 0, sizeof(extra))
ZeroedExtra == [init |-> TRUE, flags |-> {}]

\* pregSetLimits marks the two limits of the block as set.
pregSetLimits(e) ==
    [e EXCEPT !.flags = @ \cup {"MATCH_LIMIT", "MATCH_LIMIT_RECURSION"}]

\* the block as pregSkipToOccurence prepares it before its loop
SkipCallExtra_LimitsNotSet == ZeroedExtra

SkipCallExtra == pregSetLimits(ZeroedExtra)

\* pcre_exec under block e: the step budget of r is in force only if the
\* block marks the limit as set.
UnderExtra(r, e) ==
    IF "MATCH_LIMIT" \in e.flags THEN r ELSE [r EXCEPT !.limit = NoLimit]

\* ---------------------------------------------- pregCreateOffsetsVector
\* The vector and *count it leaves: infoOk is pcre_fullinfo's success,
\* mallocOk malloc's.
pregCreateOffsetsVector_NoSlotForGroup0(r, infoOk, mallocOk) ==
    LET oveccount == r.ncap * 3
    IN IF ~infoOk THEN [ovec |-> NULL, count |-> 0]
       ELSE IF ~mallocOk THEN [ovec |-> NULL, count |-> 0]
       ELSE [ovec |-> oveccount, count |-> oveccount]

pregCreateOffsetsVector(r, infoOk, mallocOk) ==
    LET oveccount == (r.ncap + 1) * 3
    IN IF ~infoOk THEN [ovec |-> NULL, count |-> 0]
       ELSE IF ~mallocOk THEN [ovec |-> NULL, count |-> 0]
       ELSE [ovec |-> oveccount, count |-> oveccount]

WalkStart ==
    /\ wpc = "idle"
    /\ re \in Patterns
    /\ ovec = NULL
    /\ count \in {0, 3}
    /\ subject = <<>>
    /\ occurence = 0
    /\ occ0 = 0
    /\ rcaddr = 1
    /\ rc = 0
    /\ subject_offset = 0
    /\ ex_subject = 0
    /\ ovector = <<0, 0>>
    /\ ret = [null |-> TRUE, off |-> 0]
    /\ attempts = 0
    /\ extra = NoExtra

\* A row starts: the caller sizes the offsets vector for its pattern.
CreateOffsetsVector ==
    /\ wpc = "idle"
    /\ \E r \in Patterns, infoOk \in BOOLEAN, mallocOk \in BOOLEAN :
          LET v == pregCreateOffsetsVector(r, infoOk, mallocOk)
          IN /\ re' = r
             /\ ovec' = v.ovec
             /\ count' = v.count
             /\ wpc' = IF v.ovec = NULL THEN "novec" ELSE "vec"
    /\ UNCHANGED <<subject, occurence, occ0, rcaddr, rc, subject_offset,
                   ex_subject, ovector, ret, attempts, extra, lvars, gvars>>

\* pregSkipToOccurence is entered: parameters bound, locals initialised.
\* *rc holds whatever the caller left in it.
SkipCall ==
    /\ wpc = "vec"
    /\ subject' \in StringsUpTo(MaxSubjectLen)
    /\ occurence' \in -1..MaxOccurence
    /\ occ0' = occurence'
    /\ rcaddr' \in 1..MaxAddr
    /\ rc' \in {PCRE_ERROR_NOMATCH, 0, 1}
    /\ subject_offset' = 0
    /\ ex_subject' = 0
    /\ ret' = [null |-> TRUE, off |-> 0]
    /\ attempts' = 0
    /\ extra' = SkipCallExtra
    /\ wpc' = "loop"
    /\ UNCHANGED <<re, ovec, count, ovector, lvars, gvars>>

\* occurence-- : the value tested and the value left.  Decrementing INT_MIN
\* overflows a signed int, which is undefined: any int may be left.
PostDecrement(v) ==
    IF v = INT_MIN THEN INT_MIN..INT_MAX ELSE {v - 1}

AttemptsCap == MaxOccurence + 2

\* One evaluation of the while condition and, if it holds, of the body.
SkipLoop ==
    /\ wpc = "loop"
    /\ occurence' \in PostDecrement(occurence)
    /\ IF occurence # 0 /\ subject_offset <= Len(subject)
       THEN LET x == pcre_exec(UnderExtra(re, extra),
                        SubSeq(subject, subject_offset + 1, Len(subject)),
                        count)
            IN /\ rc' = x.rc
               /\ ovector' = IF x.set THEN x.ov ELSE ovector
               /\ attempts' = Min(attempts + 1, AttemptsCap)
               /\ IF x.rc <= 0
                  THEN /\ wpc' = "exit"
                       /\ UNCHANGED <<ex_subject, subject_offset>>
                  ELSE /\ ex_subject' = subject_offset
                       /\ subject_offset' = subject_offset + x.ov[2]
                       /\ wpc' = "loop"
       ELSE /\ wpc' = "exit"
            /\ UNCHANGED <<rc, ovector, attempts, ex_subject, subject_offset>>
    /\ UNCHANGED <<re, ovec, count, subject, occ0, rcaddr, ret, extra,
                   lvars, gvars>>

\* if( rc > 0 ): rc is the pointer, not the int it points at; a pointer
\* compares greater than 0 exactly when it is not null.
PointerGreaterThanZero(p) == p # NULL

SkipReturn ==
    /\ wpc = "exit"
    /\ ret' = IF PointerGreaterThanZero(rcaddr)
              THEN [null |-> FALSE, off |-> ex_subject]
              ELSE [null |-> TRUE, off |-> 0]
    /\ wpc' = "done"
    /\ UNCHANGED <<re, ovec, count, subject, occurence, occ0, rcaddr, rc,
                   subject_offset, ex_subject, ovector, attempts, extra,
                   lvars, gvars>>

\* The row ends: the caller releases the offsets vector; the locals of
\* pregSkipToOccurence are gone, the caller's count stays as it was left.
RowEnd ==
    /\ wpc \in {"done", "novec"}
    /\ wpc' = "idle"
    /\ ovec' = NULL
    /\ subject' = <<>>
    /\ occurence' = 0
    /\ occ0' = 0
    /\ rcaddr' = 1
    /\ rc' = 0
    /\ subject_offset' = 0
    /\ ex_subject' = 0
    /\ ovector' = <<0, 0>>
    /\ ret' = [null |-> TRUE, off |-> 0]
    /\ attempts' = 0
    /\ extra' = NoExtra
    /\ UNCHANGED <<re, count, lvars, gvars>>


\* ================================================================ the heap
\* A pointer is the index of its block in heap, NULL is 0.  A block is never
\* removed: frees counts the times it was passed to free / pcre_free.
Alloc(h, kind, size) == Append(h, [kind |-> kind, size |-> size, frees |-> 0])

Free(h, p) == IF p = NULL THEN h ELSE [h EXCEPT ![p].frees = @ + 1]

NUL == "NUL"

\* bytes written at the start of a buffer holding data
Store(data, bytes) == bytes \o SubSeq(data, Len(bytes) + 1, Len(data))

\* ======================================================= pattern arguments
PatChars == {"/", "a", "i", ")"}
PatTexts == UNION {[1..k -> PatChars] : k \in 0..MaxPatLen}

\* args->args[0] and args->lengths[0] of a row: a NULL pointer, or the text
NullArg == [null |-> TRUE, text |-> <<>>]
PatArgs == {NullArg} \cup {[null |-> FALSE, text |-> x] : x \in PatTexts}

\* The pattern argument at init: args->args[0] is set only for a constant
\* that is not NULL.
NonConstArg == [const |-> FALSE, null |-> TRUE, text |-> <<>>]
InitArgs ==
    {NonConstArg, [const |-> TRUE, null |-> TRUE, text |-> <<>>]}
    \cup {[const |-> TRUE, null |-> FALSE, text |-> x] : x \in PatTexts}

\* compileRegex: the text is a delimiter, a body up to the next occurrence
\* of the delimiter, then modifiers.  A letter is no delimiter, the body
\* must compile (an unmatched ")" does not), the only modifier is "i".
ValidRegex(text) ==
    /\ Len(text) >= 2
    /\ text[1] \in {"/", ")"}
    /\ \E j \in 2..Len(text) :
          /\ text[j] = text[1]
          /\ \A k \in 2..(j - 1) : text[k] \in {"a", "i"}
          /\ \A k \in (j + 1)..Len(text) : text[k] = "i"

compileRegex(text, memOk) == memOk /\ ValidRegex(text)

\* ghargIsNullConstant( args , 0 )
ghargIsNullConstant(argc, const, null) == argc > 0 /\ const /\ null

\* pregCompileRegexArg: ghargdup gives NULL for a NULL or empty argument and
\* when its malloc fails (dupOk); the copy is freed after the compile.
pregCompileRegexArg(h, arg, dupOk, ccOk) ==
    IF arg.null \/ Len(arg.text) = 0 \/ ~dupOk
    THEN [heap |-> h, re |-> NULL,
          msg |-> IF Len(arg.text) # 0 /\ ~arg.null
                  THEN "Out of memory" ELSE "Empty pattern"]
    ELSE LET h1 == Alloc(h, "val", 0)
             val == Len(h1)
             ok == compileRegex(arg.text, ccOk)
             h2 == IF ok THEN Alloc(h1, "pcre", 0) ELSE h1
         IN [heap |-> Free(h2, val),
             re |-> IF ok THEN Len(h2) ELSE NULL,
             msg |-> IF ok THEN "" ELSE "compile error"]

\* ------------------------------------------------- the argument arrays
\* One access to args->args, args->lengths or args->arg_type.
ArgAccess(array, index) == [array |-> array, index |-> index]

\* The accesses that fall outside arrays of argc entries.
OutOfBounds(accesses, argc) == {x \in accesses : x.index >= argc}

\* pregCompileRegexArg reads lengths[0] and args[0] (ghargdup( args , 0 )
\* reads the same two).
pregCompileRegexArgAccesses ==
    {ArgAccess("lengths", 0), ArgAccess("args", 0)}

\* pregInit: nothing is touched when calloc fails or the NULL constant is
\* refused; else arg_type[0] and arg_type[1] are written whatever arg_count
\* is, args[0] is read if arg_count is not 0, and a pattern that is there
\* is compiled.
pregInitAccesses(a, argc, mem) ==
    IF ~mem.calloc THEN {}
    ELSE IF ghargIsNullConstant(argc, a.const, a.null) /\ gh10 THEN {}
    ELSE {ArgAccess("arg_type", i) : i \in 0..1}
         \cup (IF argc # 0 THEN {ArgAccess("args", 0)} ELSE {})
         \cup (IF argc # 0 /\ ~a.null
               THEN pregCompileRegexArgAccesses ELSE {})

\* preg_check reads args[0], lengths[0] if args[0] is not NULL, and compiles
\* the pattern if both are set.
preg_checkAccesses(arg, nullconst) ==
    IF ~gh10 /\ nullconst THEN {}
    ELSE {ArgAccess("args", 0)}
         \cup (IF ~arg.null THEN {ArgAccess("lengths", 0)} ELSE {})
         \cup (IF ~arg.null /\ Len(arg.text) # 0
               THEN pregCompileRegexArgAccesses ELSE {})

\* ================================================================ pregInit
DEFAULT_BUFFER_SIZE == 1024000

ZeroCtx == [re |-> NULL, constant_pattern |-> 0,
            return_buffer |-> NULL, return_buffer_size |-> 0]

Result(h, id, c, r, m) ==
    [heap |-> h, initid |-> id, ctx |-> c, ret |-> r, message |-> m]

\* lines 391-404: size and allocate the return buffer; the result of malloc
\* is stored unchecked.
AllocReturnBuffer(h, id, c, bufOk) ==
    LET size == IF id.max_length > 0 THEN id.max_length + 1
                ELSE DEFAULT_BUFFER_SIZE
        h1 == IF bufOk THEN Alloc(h, "buffer", size) ELSE h
    IN Result(h1, id,
              [c EXCEPT !.return_buffer_size = size,
                        !.return_buffer = IF bufOk THEN Len(h1) ELSE NULL],
              0, "")

\* mem: which of the allocations succeed (calloc, dup, cc, buf)
pregInit_ConstantNotMarked(h, id, a, argc, mem) ==
    IF ~mem.calloc
    THEN Result(h, [id EXCEPT !.ptr = NULL], ZeroCtx, 1, "not enough memory")
    ELSE LET h1 == Alloc(h, "preg_s", 0)
             id1 == [id EXCEPT !.ptr = Len(h1)]
             nullconst == ghargIsNullConstant(argc, a.const, a.null)
             c1 == [ZeroCtx EXCEPT
                       !.constant_pattern = IF nullconst THEN 1 ELSE 0]
         IN IF nullconst /\ gh10
            THEN Result(h1, id1, c1, 1, "NULL pattern")
            ELSE IF argc # 0 /\ ~a.null
            THEN LET r == pregCompileRegexArg(h1, a, mem.dup, mem.cc)
                 IN IF r.re = NULL
                    THEN Result(r.heap, id1, c1, 1, r.msg)
                    ELSE AllocReturnBuffer(r.heap, id1,
                             [c1 EXCEPT !.re = r.re], mem.buf)
            ELSE AllocReturnBuffer(h1, id1, c1, mem.buf)

pregInit(h, id, a, argc, mem) ==
    IF ~mem.calloc
    THEN Result(h, [id EXCEPT !.ptr = NULL], ZeroCtx, 1, "not enough memory")
    ELSE LET h1 == Alloc(h, "preg_s", 0)
             id1 == [id EXCEPT !.ptr = Len(h1)]
             nullconst == ghargIsNullConstant(argc, a.const, a.null)
             c1 == [ZeroCtx EXCEPT
                       !.constant_pattern = IF nullconst THEN 1 ELSE 0]
         IN IF nullconst /\ gh10
            THEN Result(h1, id1, c1, 1, "NULL pattern")
            ELSE IF argc # 0 /\ ~a.null
            THEN LET r == pregCompileRegexArg(h1, a, mem.dup, mem.cc)
                 IN IF r.re = NULL
                    THEN Result(r.heap, id1, c1, 1, r.msg)
                    ELSE AllocReturnBuffer(r.heap, id1,
                             [c1 EXCEPT !.re = r.re,
                                        !.constant_pattern = 1],
                             mem.buf)
            ELSE AllocReturnBuffer(h1, id1,
                     [c1 EXCEPT !.constant_pattern = 0], mem.buf)

MemOutcomes == [calloc : BOOLEAN, dup : BOOLEAN, cc : BOOLEAN, buf : BOOLEAN]

NoCall == [op |-> "none", snull |-> TRUE, s |-> <<>>, s_len |-> 0,
           arg |-> NullArg, dupOk |-> TRUE, ccOk |-> TRUE, growOk |-> TRUE]

NoOut == [ptr |-> NULL, value |-> 0, length |-> 0, is_null |-> 0,
          error |-> 0]

LifeStart ==
    /\ gh10 \in BOOLEAN
    /\ phase = "start"
    /\ udf = "none"
    /\ args0 = NonConstArg
    /\ initid = [ptr |-> NULL, max_length |-> 0, maybe_null |-> FALSE]
    /\ ctx = ZeroCtx
    /\ heap = <<>>
    /\ bufdata = <<>>
    /\ out = NoOut
    /\ last = NoCall
    /\ initret = [called |-> FALSE, preg |-> 0, hook |-> 0]
    /\ message = ""
    /\ seq = [inc |-> TRUE, len |-> -1]
    /\ nrows = 0
    /\ ndeinit = 0
    /\ oob = {}

\* The init hook of a udf that returns a string: it hands pregInit's result
\* to the host.
StringInit ==
    /\ phase = "start" /\ ndeinit = 0
    /\ \E argc \in 0..MaxArgCount, a \in InitArgs, ml \in 0..MaxLength,
          mn \in BOOLEAN, mem \in MemOutcomes :
          LET a0 == IF argc = 0 THEN NonConstArg ELSE a
              r == pregInit(heap,
                            [ptr |-> NULL, max_length |-> ml,
                             maybe_null |-> mn], a0, argc, mem)
          IN /\ heap' = r.heap
             /\ initid' = r.initid
             /\ ctx' = r.ctx
             /\ message' = r.message
             /\ initret' = [called |-> TRUE, preg |-> r.ret, hook |-> r.ret]
             /\ phase' = IF r.ret = 0 THEN "ready" ELSE "failed"
             /\ args0' = [a0 EXCEPT !.text = <<>>]
             /\ oob' = OutOfBounds(pregInitAccesses(a0, argc, mem), argc)
    /\ udf' = "string"
    /\ bufdata' = <<>>
    /\ UNCHANGED <<gh10, out, last, seq, nrows, ndeinit, wvars, gvars>>

\* preg_check_init: what the hook returns for arg_count argc when pregInit,
\* if called, returned r.
preg_check_init_InitResultReturned(argc, r) == IF argc # 1 THEN 1 ELSE r

preg_check_init(argc, r) == IF argc # 1 THEN 1 ELSE 0

CheckInit ==
    /\ phase = "start" /\ ndeinit = 0
    /\ \E argc \in 0..MaxArgCount, a \in InitArgs, ml \in 0..MaxLength,
          mn \in BOOLEAN, mem \in MemOutcomes :
          IF argc # 1
          THEN /\ message' = "preg_check: needs exactly one argument"
               /\ initret' = [called |-> FALSE, preg |-> 0,
                              hook |-> preg_check_init(argc, 0)]
               /\ phase' = "failed"
               /\ initid' = [ptr |-> NULL, max_length |-> ml,
                             maybe_null |-> mn]
               /\ args0' = NonConstArg
               /\ UNCHANGED <<heap, ctx, oob>>
          ELSE LET r == pregInit(heap,
                                 [ptr |-> NULL, max_length |-> ml,
                                  maybe_null |-> FALSE], a, argc, mem)
               IN /\ heap' = r.heap
                  /\ initid' = r.initid
                  /\ ctx' = r.ctx
                  /\ message' = r.message
                  /\ initret' = [called |-> TRUE, preg |-> r.ret,
                                 hook |-> preg_check_init(argc, r.ret)]
                  /\ phase' = IF preg_check_init(argc, r.ret) = 0
                              THEN "ready" ELSE "failed"
                  /\ args0' = a
                  /\ oob' = OutOfBounds(pregInitAccesses(a, argc, mem),
                                        argc)
    /\ udf' = "check"
    /\ bufdata' = <<>>
    /\ UNCHANGED <<gh10, out, last, seq, nrows, ndeinit, wvars, gvars>>

\* ================================================== pregCopyToReturnBuffer
\* ret is the int returned; crash: a write through a NULL return_buffer.
pregCopyToReturnBuffer_SizeNotRecorded(h, c, data, s, l, growOk) ==
    LET grow == l + 1 > c.return_buffer_size
    IN IF grow /\ ~growOk
       THEN [heap |-> h, ctx |-> c, data |-> data, ret |-> -1,
             crash |-> FALSE]
       ELSE LET h1 == IF grow
                      THEN Free(Alloc(h, "buffer", l + 1), c.return_buffer)
                      ELSE h
                c1 == IF grow
                      THEN [c EXCEPT !.return_buffer = Len(h) + 1]
                      ELSE c
                d1 == IF grow THEN <<>> ELSE data
            IN IF c1.return_buffer = NULL
               THEN [heap |-> h1, ctx |-> c1, data |-> d1, ret |-> -1,
                     crash |-> TRUE]
               ELSE [heap |-> h1, ctx |-> c1,
                     data |-> Store(d1, SubSeq(s, 1, l) \o <<NUL>>),
                     ret |-> l, crash |-> FALSE]

pregCopyToReturnBuffer_OldBufferKept(h, c, data, s, l, growOk) ==
    LET grow == l + 1 > c.return_buffer_size
    IN IF grow /\ ~growOk
       THEN [heap |-> h, ctx |-> c, data |-> data, ret |-> -1,
             crash |-> FALSE]
       ELSE LET h1 == IF grow THEN Alloc(h, "buffer", l + 1) ELSE h
                c1 == IF grow
                      THEN [c EXCEPT !.return_buffer = Len(h) + 1,
                                     !.return_buffer_size = l + 1]
                      ELSE c
                d1 == IF grow THEN <<>> ELSE data
            IN IF c1.return_buffer = NULL
               THEN [heap |-> h1, ctx |-> c1, data |-> d1, ret |-> -1,
                     crash |-> TRUE]
               ELSE [heap |-> h1, ctx |-> c1,
                     data |-> Store(d1, SubSeq(s, 1, l) \o <<NUL>>),
                     ret |-> l, crash |-> FALSE]

pregCopyToReturnBuffer_FreedBeforeAlloc(h, c, data, s, l, growOk) ==
    LET grow == l + 1 > c.return_buffer_size
    IN IF grow /\ ~growOk
       THEN [heap |-> Free(h, c.return_buffer), ctx |-> c, data |-> data,
             ret |-> -1, crash |-> FALSE]
       ELSE LET h1 == IF grow
                      THEN Free(Alloc(h, "buffer", l + 1), c.return_buffer)
                      ELSE h
                c1 == IF grow
                      THEN [c EXCEPT !.return_buffer = Len(h) + 1,
                                     !.return_buffer_size = l + 1]
                      ELSE c
                d1 == IF grow THEN <<>> ELSE data
            IN IF c1.return_buffer = NULL
               THEN [heap |-> h1, ctx |-> c1, data |-> d1, ret |-> -1,
                     crash |-> TRUE]
               ELSE [heap |-> h1, ctx |-> c1,
                     data |-> Store(d1, SubSeq(s, 1, l) \o <<NUL>>),
                     ret |-> l, crash |-> FALSE]

pregCopyToReturnBuffer(h, c, data, s, l, growOk) ==
    LET grow == l + 1 > c.return_buffer_size
    IN IF grow /\ ~growOk
       THEN [heap |-> h, ctx |-> c, data |-> data, ret |-> -1,
             crash |-> FALSE]
       ELSE LET h1 == IF grow
                      THEN Free(Alloc(h, "buffer", l + 1), c.return_buffer)
                      ELSE h
                c1 == IF grow
                      THEN [c EXCEPT !.return_buffer = Len(h) + 1,
                                     !.return_buffer_size = l + 1]
                      ELSE c
                d1 == IF grow THEN <<>> ELSE data
            IN IF c1.return_buffer = NULL
               THEN [heap |-> h1, ctx |-> c1, data |-> d1, ret |-> -1,
                     crash |-> TRUE]
               ELSE [heap |-> h1, ctx |-> c1,
                     data |-> Store(d1, SubSeq(s, 1, l) \o <<NUL>>),
                     ret |-> l, crash |-> FALSE]

\* ================================================== pregMoveToReturnValues
\* sp is the pointer s (NULL when absent), s the bytes it points at.  The
\* host clears *is_null before it calls the row function.
pregMoveToReturnValues(h, id, c, data, sp, s, s_len, growOk) ==
    IF c.return_buffer = NULL
    THEN [heap |-> h, ctx |-> c, data |-> data, out |-> NoOut,
          copied |-> FALSE, crash |-> TRUE]
    ELSE LET d0 == Store(data, <<NUL>>)
             isn == IF id.maybe_null THEN 1 ELSE 0
             r == pregCopyToReturnBuffer(h, c, d0, s, s_len, growOk)
             done(h2, c2, d2, len, n, e, cp) ==
                 [heap |-> h2, ctx |-> c2, data |-> d2,
                  out |-> [ptr |-> IF n # 0 THEN NULL ELSE c2.return_buffer,
                           value |-> 0, length |-> len, is_null |-> n,
                           error |-> e],
                  copied |-> cp, crash |-> FALSE]
         IN IF s_len >= 0
            THEN IF sp # NULL
                 THEN IF r.ret >= 0
                      THEN done(Free(r.heap, sp), r.ctx, r.data, r.ret, 0, 0,
                                TRUE)
                      ELSE done(Free(r.heap, sp), r.ctx, r.data, 0, isn, 1,
                                FALSE)
                 ELSE done(h, c, d0, 0, 0, 0, FALSE)
            ELSE done(h, c, d0, 0, isn, 1, FALSE)

Strings == StringsUpTo(MaxStrLen)
ErrorCodes == {PCRE_ERROR_NOMATCH, PCRE_ERROR_MATCHLIMIT}

NoteLength(q, copied, l) ==
    IF copied THEN [inc |-> q.inc /\ l > q.len, len |-> l] ELSE q

\* A row of a udf that returns a string ends: the result string s, which the
\* row allocated (or did not), and its length or the engine's error code go
\* to pregMoveToReturnValues.
RowMove ==
    /\ phase = "ready" /\ udf = "string" /\ nrows < MaxRows
    /\ \E present \in BOOLEAN, s \in Strings,
          s_len \in ErrorCodes \cup 0..MaxStrLen, growOk \in BOOLEAN :
          /\ ~present => s = <<>>
          /\ s_len >= 0 => s_len = Len(s)
          /\ ~growOk => (present /\ s_len + 1 > ctx.return_buffer_size)
          /\ LET h0 == IF present THEN Alloc(heap, "string", 0) ELSE heap
                 sp == IF present THEN Len(h0) ELSE NULL
                 r == pregMoveToReturnValues(h0, initid, ctx, bufdata, sp, s,
                                             s_len, growOk)
             IN /\ last' = [NoCall EXCEPT !.op = "move",
                               !.snull = ~present, !.s = s, !.s_len = s_len,
                               !.growOk = growOk]
                /\ heap' = r.heap
                /\ ctx' = r.ctx
                /\ bufdata' = r.data
                /\ out' = r.out
                /\ seq' = NoteLength(seq, r.copied, s_len)
                /\ phase' = IF r.crash THEN "crashed" ELSE phase
    /\ nrows' = nrows + 1
    /\ UNCHANGED <<gh10, udf, args0, initid, initret, message, ndeinit, oob,
                   wvars, gvars>>

\* A row copies a string of its own into the return buffer.
RowCopy ==
    /\ phase = "ready" /\ udf = "string" /\ nrows < MaxRows
    /\ \E s \in Strings, growOk \in BOOLEAN :
          /\ ~growOk => Len(s) + 1 > ctx.return_buffer_size
          /\ LET r == pregCopyToReturnBuffer(heap, ctx, bufdata, s, Len(s),
                                             growOk)
             IN /\ last' = [NoCall EXCEPT !.op = "copy", !.snull = FALSE,
                               !.s = s, !.s_len = Len(s), !.growOk = growOk]
                /\ heap' = r.heap
                /\ ctx' = r.ctx
                /\ bufdata' = r.data
                /\ out' = [NoOut EXCEPT !.value = r.ret]
                /\ seq' = NoteLength(seq, r.ret >= 0, Len(s))
                /\ phase' = IF r.crash THEN "crashed" ELSE phase
    /\ nrows' = nrows + 1
    /\ UNCHANGED <<gh10, udf, args0, initid, initret, message, ndeinit, oob,
                   wvars, gvars>>

\* ============================================================== preg_check
\* value is the longlong returned (return NULL gives 0).
preg_check_CompileResultIgnored(h, arg, nullconst, dupOk, ccOk) ==
    IF ~gh10 /\ nullconst
    THEN [heap |-> h, value |-> 0, is_null |-> 1]
    ELSE IF ~arg.null /\ Len(arg.text) # 0
    THEN LET r == pregCompileRegexArg(h, arg, dupOk, ccOk)
         IN [heap |-> Free(r.heap, r.re), value |-> 1, is_null |-> 0]
    ELSE [heap |-> h, value |-> 0, is_null |-> 0]

preg_check_PatternNotFreed(h, arg, nullconst, dupOk, ccOk) ==
    IF ~gh10 /\ nullconst
    THEN [heap |-> h, value |-> 0, is_null |-> 1]
    ELSE IF ~arg.null /\ Len(arg.text) # 0
    THEN LET r == pregCompileRegexArg(h, arg, dupOk, ccOk)
         IN IF r.re = NULL
            THEN [heap |-> r.heap, value |-> 0, is_null |-> 0]
            ELSE [heap |-> r.heap, value |-> 1, is_null |-> 0]
    ELSE [heap |-> h, value |-> 0, is_null |-> 0]

preg_check(h, arg, nullconst, dupOk, ccOk) ==
    IF ~gh10 /\ nullconst
    THEN [heap |-> h, value |-> 0, is_null |-> 1]
    ELSE IF ~arg.null /\ Len(arg.text) # 0
    THEN LET r == pregCompileRegexArg(h, arg, dupOk, ccOk)
         IN IF r.re = NULL
            THEN [heap |-> r.heap, value |-> 0, is_null |-> 0]
            ELSE [heap |-> Free(r.heap, r.re), value |-> 1, is_null |-> 0]
    ELSE [heap |-> h, value |-> 0, is_null |-> 0]

\* A row of PREG_CHECK: a constant pattern argument is the one init saw.
RowCheck ==
    /\ phase = "ready" /\ udf = "check" /\ nrows < MaxRows
    /\ \E arg \in PatArgs, dupOk \in BOOLEAN, ccOk \in BOOLEAN :
          /\ args0.const => (arg.null = args0.null /\ arg.text = args0.text)
          /\ ~ccOk => dupOk
          /\ LET r == preg_check(heap, arg,
                          ghargIsNullConstant(1, args0.const, arg.null),
                          dupOk, ccOk)
             IN /\ last' = [NoCall EXCEPT !.op = "check", !.arg = arg,
                               !.dupOk = dupOk, !.ccOk = ccOk]
                /\ heap' = r.heap
                /\ out' = [NoOut EXCEPT !.value = r.value,
                                        !.is_null = r.is_null]
          /\ oob' = oob \cup
                OutOfBounds(preg_checkAccesses(arg,
                                ghargIsNullConstant(1, args0.const, arg.null)),
                            1)
    /\ nrows' = nrows + 1
    /\ UNCHANGED <<gh10, phase, udf, args0, initid, ctx, bufdata, initret,
                   message, seq, ndeinit, wvars, gvars>>

\* ============================================================== pregDeInit
destroyPtrInfo(h, c) ==
    LET h1 == IF c.re # NULL THEN Free(h, c.re) ELSE h
        h2 == IF c.return_buffer # NULL THEN Free(h1, c.return_buffer)
              ELSE h1
    IN [heap |-> h2, ctx |-> [c EXCEPT !.re = NULL, !.return_buffer = NULL]]

pregDeInit_PtrNotCleared(h, id, c) ==
    IF id.ptr # NULL
    THEN LET d == destroyPtrInfo(h, c)
         IN [heap |-> Free(d.heap, id.ptr), ctx |-> d.ctx, initid |-> id]
    ELSE [heap |-> h, ctx |-> c, initid |-> id]

pregDeInit(h, id, c) ==
    IF id.ptr # NULL
    THEN LET d == destroyPtrInfo(h, c)
         IN [heap |-> Free(d.heap, id.ptr), ctx |-> d.ctx,
             initid |-> [id EXCEPT !.ptr = NULL]]
    ELSE [heap |-> h, ctx |-> c, initid |-> id]

\* The deinit hook (preg_check_deinit is pregDeInit), in any state of the
\* query: before init, after an init that failed, after rows, once more.
DeInit ==
    /\ phase # "crashed" /\ ndeinit < MaxDeInit
    /\ LET r == pregDeInit(heap, initid, ctx)
       IN /\ heap' = r.heap
          /\ ctx' = r.ctx
          /\ initid' = r.initid
    /\ last' = [NoCall EXCEPT !.op = "deinit"]
    /\ phase' = "closed"
    /\ ndeinit' = ndeinit + 1
    /\ UNCHANGED <<gh10, udf, args0, bufdata, out, initret, message, seq,
                   nrows, oob, wvars, gvars>>

vars == <<wvars, lvars, gvars>>

\* ========================================================= pregGetGroupNum
\* The pattern (?<x>..)(?<y>..) cut to its first ncap groups: its name table.
GroupNames == <<"x", "y">>

PCRE_ERROR_NOSUBSTRING == -7

pcre_get_stringnumber(ncap, name) ==
    LET hit == {n \in 1..Min(ncap, Len(GroupNames)) : GroupNames[n] = name}
    IN IF hit = {} THEN PCRE_ERROR_NOSUBSTRING ELSE CHOOSE n \in hit : TRUE

\* One argument of the call: its arg_type, whether args[i] is NULL, and the
\* integer or the text it points at.
NoName == "?"
GroupArgs ==
    [type : {"INT"}, null : {FALSE}, int : 0..MaxGroups, name : {NoName}]
    \cup [type : {"STRING"}, null : {FALSE}, int : {0},
          name : {GroupNames[n] : n \in 1..Len(GroupNames)}]
    \cup {[type |-> "STRING", null |-> TRUE, int |-> 0, name |-> NoName]}

ArgLists == UNION {[1..n -> GroupArgs] : n \in 0..MaxArgCount}

\* ghargdup( args , n ): a copy of argument n as a string, NoName's text for
\* an integer (its digits are no group name); NULL when there is no such
\* argument, when it is NULL, or when the allocation fails.
ghargdup(a, n, dupOk) ==
    IF n >= Len(a) \/ a[n + 1].null \/ ~dupOk
    THEN [null |-> TRUE, text |-> NoName]
    ELSE [null |-> FALSE, text |-> a[n + 1].name]

\* what reading memory that holds no longlong may give
GarbageInts == (0 - 1)..(MaxGroups + 1)

Returned(n) == [crash |-> FALSE, num |-> n]
Crashed == [crash |-> TRUE, num |-> 0]

\* The outcomes of pregGetGroupNum( re , args , argnum ).  The value is
\* always taken from args->args[2]: past the end of the array when
\* arg_count <= 2 (undefined), through a NULL pointer when that argument is
\* NULL, from the bytes of a string when it is one.
pregGetGroupNum(ncap, a, argnum, dupOk) ==
    IF argnum >= Len(a) THEN {Returned(0)}
    ELSE IF a[argnum + 1].type = "INT"
    THEN IF 2 >= Len(a)
         THEN {Crashed} \cup {Returned(n) : n \in GarbageInts}
         ELSE IF a[3].null THEN {Crashed}
         ELSE IF a[3].type = "INT" THEN {Returned(a[3].int)}
         ELSE {Returned(n) : n \in GarbageInts}
    ELSE LET group == ghargdup(a, 2, dupOk)
         IN IF group.null THEN {Returned(0 - 1)}
            ELSE {Returned(pcre_get_stringnumber(ncap, group.text))}

NoGroupCall == [ncap |-> 0, args |-> <<>>, argnum |-> 0, dupOk |-> TRUE]

GroupIdle ==
    /\ gpc = "idle"
    /\ gcall = NoGroupCall
    /\ gret = Returned(0)

\* A row resolves its group reference.
GetGroupNum ==
    /\ gpc = "idle"
    /\ \E ncap \in 0..MaxGroups, a \in ArgLists, argnum \in 0..MaxArgCount,
          dupOk \in BOOLEAN :
          /\ gcall' = [ncap |-> ncap, args |-> a, argnum |-> argnum,
                       dupOk |-> dupOk]
          /\ gret' \in pregGetGroupNum(ncap, a, argnum, dupOk)
    /\ gpc' = "done"
    /\ UNCHANGED <<wvars, lvars>>

\* The row ends.
GroupRowEnd ==
    /\ gpc = "done"
    /\ gpc' = "idle"
    /\ gcall' = NoGroupCall
    /\ gret' = Returned(0)
    /\ UNCHANGED <<wvars, lvars>>

GroupNext == GetGroupNum \/ GroupRowEnd


WalkIdle ==
    /\ wpc = "idle"
    /\ re = [alts |-> <<<<>>>>, anchored |-> FALSE, ncap |-> 0, limit |-> 2]
    /\ ovec = NULL
    /\ count = 0
    /\ subject = <<>>
    /\ occurence = 0
    /\ occ0 = 0
    /\ rcaddr = 1
    /\ rc = 0
    /\ subject_offset = 0
    /\ ex_subject = 0
    /\ ovector = <<0, 0>>
    /\ ret = [null |-> TRUE, off |-> 0]
    /\ attempts = 0
    /\ extra = NoExtra

Next == StringInit \/ CheckInit \/ RowMove \/ RowCopy \/ RowCheck \/ DeInit

\* The query's context lives; no row of a capturing udf is modelled.
Init == LifeStart /\ WalkIdle /\ GroupIdle

Spec == Init /\ [][Next]_vars

WalkNext ==
    CreateOffsetsVector \/ SkipCall \/ SkipLoop \/ SkipReturn \/ RowEnd

\* Rows of a capturing udf; the call context is left at its start.
WalkInit == WalkStart /\ LifeStart /\ GroupIdle /\ gh10 = FALSE

SpecWalk == WalkInit /\ [][WalkNext]_vars

\* Only the group reference of a row is resolved.
GroupInit == GroupIdle /\ WalkIdle /\ LifeStart /\ gh10 = FALSE

SpecGroup == GroupInit /\ [][GroupNext]_vars

\* ------------------------------------------------------------ the claims
\* The non-overlapping matches of r in the whole subject s, as a global
\* scan finds them (each search starts where the match before ended, ^ is
\* the start of s, and an empty match is followed by a non-empty attempt at
\* the same place, then by a search one character on): their start offsets.
RECURSIVE RefMatches(_, _, _, _)
RefMatches(r, s, pos, lastEmpty) ==
    IF pos > Len(s) THEN <<>>
    ELSE IF lastEmpty
    THEN IF (r.anchored => pos = 0) /\ MatchLenAt(r, s, pos, TRUE) >= 0
         THEN <<pos>> \o RefMatches(r, s, pos + MatchLenAt(r, s, pos, TRUE),
                                    FALSE)
         ELSE RefMatches(r, s, pos + 1, FALSE)
    ELSE LET hits == {p \in pos..Len(s) :
                         /\ r.anchored => p = 0
                         /\ MatchLenAt(r, s, p, FALSE) >= 0}
             p == CHOOSE q \in hits : \A q2 \in hits : q <= q2
             n == MatchLenAt(r, s, p, FALSE)
         IN IF hits = {} \/ p - pos + 1 > r.limit THEN <<>>
            ELSE <<p>> \o RefMatches(r, s, p + n, n = 0)

Matches == RefMatches(re, subject, 0, FALSE)

\* C2: asked for occurence k >= 1 of a pattern the subject holds at least k
\* non-overlapping matches of, pregSkipToOccurence returns the position
\* where the k-th match starts, and the last return code is positive.
C2_ReturnsKthMatchStart ==
    (wpc = "done" /\ occ0 >= 1 /\ Len(Matches) >= occ0)
        => (~ret.null /\ ret.off = Matches[occ0] /\ rc > 0)

\* C3: asked for occurence 0, pregSkipToOccurence makes no match attempt
\* and returns NULL.
C3_OccurenceZeroReturnsNull ==
    (wpc = "done" /\ occ0 = 0) => (attempts = 0 /\ ret.null)

\* C4: asked for an occurence k beyond the number of non-overlapping
\* matches in the subject, the return code left in *rc is not positive.
C4_BeyondLastMatchRcNotPositive ==
    (wpc = "done" /\ occ0 >= 1 /\ occ0 > Len(Matches)) => rc <= 0

\* C5: pregCreateOffsetsVector, for a pattern of n capture groups, returns
\* a vector of 3*(n+1) ints with *count = 3*(n+1), and on failure of the
\* introspection or of the allocation returns NULL with *count = 0.
C5_OffsetsVectorSize ==
    /\ wpc \in {"vec", "loop", "exit", "done"}
          => (ovec = 3 * (re.ncap + 1) /\ count = 3 * (re.ncap + 1))
    /\ wpc = "novec" => (ovec = NULL /\ count = 0)

C5_Witness ==
    wpc = "vec" /\ re.ncap = MaxGroups /\ count = 3 * (MaxGroups + 1)

\* what pregInit sized the return buffer to
InitialSize ==
    IF initid.max_length > 0 THEN initid.max_length + 1
    ELSE DEFAULT_BUFFER_SIZE

Blocks(kind) == {i \in 1..Len(heap) : heap[i].kind = kind}

\* the last row call copied its string into the return buffer
Copied ==
    /\ phase # "crashed"
    /\ \/ last.op = "move" /\ ~last.snull /\ last.s_len >= 0 /\ out.error = 0
       \/ last.op = "copy" /\ out.value >= 0

C6_MoveYieldsValue ==
    (last.op = "move" /\ last.s_len >= 0 /\ last.growOk) =>
        /\ phase # "crashed"
        /\ out.is_null = 0 /\ out.error = 0
        /\ out.ptr # NULL /\ out.ptr = ctx.return_buffer
        /\ IF last.snull
           THEN out.length = 0 /\ Len(bufdata) >= 1 /\ bufdata[1] = NUL
           ELSE /\ out.length = last.s_len
                /\ Len(bufdata) >= last.s_len + 1
                /\ SubSeq(bufdata, 1, last.s_len + 1) = last.s \o <<NUL>>

\* C7: pregMoveToReturnValues with s_len < 0 takes the error path: error = 1,
\* length = 0, is_null = 1 and NULL returned if the function is nullable,
\* and the return buffer is only reset to the empty string, its allocation
\* and recorded capacity being left as they were.
C7_NegativeLengthIsError ==
    [][(last'.op = "move" /\ last'.s_len < 0 /\ nrows' = nrows + 1) =>
          /\ phase' # "crashed"
          /\ out'.error = 1 /\ out'.length = 0
          /\ initid.maybe_null => (out'.is_null = 1 /\ out'.ptr = NULL)
          /\ ctx' = ctx
          /\ \A i \in Blocks("buffer") : heap'[i] = heap[i]
          /\ bufdata' = Store(bufdata, <<NUL>>)]_vars

\* C8: over calls with strictly increasing result lengths, after each call
\* the recorded capacity of the return buffer is that call's len + 1.
C8_CapacityIsLenPlusOne ==
    (Copied /\ seq.inc) => ctx.return_buffer_size = last.s_len + 1

\* C8, amended: ... the recorded capacity is the larger of the capacity
\* pregInit set and that call's len + 1.
C8_CapacityIsLargestNeeded ==
    (Copied /\ seq.inc) =>
        ctx.return_buffer_size = Max(InitialSize, last.s_len + 1)

C8_Witness ==
    /\ Copied /\ seq.inc /\ nrows = MaxRows
    /\ ctx.return_buffer_size = last.s_len + 1
    /\ Cardinality(Blocks("buffer")) >= 3

\* C9: pregDeInit is safe in every state of the query: with no context ever
\* allocated, after an init that failed partway, a second time; it does not
\* crash, frees nothing twice and leaves initid->ptr NULL.
C9_DeInitSafe ==
    last.op = "deinit" =>
        /\ phase = "closed"
        /\ initid.ptr = NULL
        /\ \A i \in 1..Len(heap) : heap[i].frees <= 1

C9_Witness ==
    /\ last.op = "deinit" /\ ndeinit = 2
    /\ initret.called /\ initret.preg = 1
    /\ Cardinality(Blocks("preg_s")) = 1

\* C10: from pregInit through rows to pregDeInit, each resource the context
\* owned (the struct, the compiled pattern, the first return buffer and
\* each one that replaced it) is freed exactly once, and after deinit none
\* of them is live.
C10_FreedExactlyOnce ==
    /\ \A i \in 1..Len(heap) : heap[i].frees <= 1
    /\ phase = "closed" =>
          \A i \in 1..Len(heap) :
              heap[i].kind # "string" => heap[i].frees = 1

C10_Witness ==
    /\ phase = "closed" /\ nrows >= 1
    /\ Cardinality(Blocks("buffer")) >= 2
    /\ Cardinality(Blocks("pcre")) >= 1
    /\ Cardinality(Blocks("preg_s")) = 1

\* C11: pregInit returns 1 whenever one of its allocations fails, so after
\* every pregInit that returned 0 the return buffer is allocated and no row
\* writes through a missing buffer.
C11_InitFailsOnAllocFailure ==
    /\ (initret.called /\ initret.preg = 0 /\ phase = "ready")
          => ctx.return_buffer # NULL
    /\ phase # "crashed"

\* C13: with a constant pattern the compiler runs exactly once, at init, over
\* init and any number of rows: one copy of the pattern text was made and
\* one pattern was compiled.
C13_ConstantCompiledOnce ==
    (initret.called /\ initret.preg = 0 /\ args0.const /\ ~args0.null)
        => /\ Cardinality(Blocks("val")) = 1
           /\ Cardinality(Blocks("pcre")) = 1

\* C15: pregMoveToReturnValues releases a present s exactly once, whatever
\* the outcome (s_len negative or not, copy succeeding or failing).
C15_SourceStringConsumed ==
    (udf = "string" /\ phase # "crashed")
        => \A i \in Blocks("string") : heap[i].frees = 1

\* C12: when pregInit fails, preg_check_init returns 1 and no row is
\* evaluated.
C12_InitFailurePropagated ==
    (udf = "check" /\ initret.called /\ initret.preg = 1)
        => (initret.hook = 1 /\ phase # "ready" /\ nrows = 0)

\* C12, amended: preg_check_init returns 1 exactly when arg_count is not 1;
\* a failure of pregInit is not handed on: the hook returns 0 and the rows
\* are evaluated.
C12_InitFailureNotPropagated ==
    udf = "check" =>
        /\ initret.hook = (IF initret.called THEN 0 ELSE 1)
        /\ initret.hook = 1 => (phase \in {"failed", "closed"} /\ nrows = 0)
        /\ (initret.called /\ ndeinit = 0) => phase = "ready"

C12_Witness ==
    /\ udf = "check" /\ initret.called /\ initret.preg = 1
    /\ initret.hook = 0 /\ last.op = "check" /\ nrows = MaxRows

\* the compiled patterns that are live in heap h
LivePatterns(h) ==
    {i \in 1..Len(h) : h[i].kind = "pcre" /\ h[i].frees = 0}

\* C14: what a row of preg_check compiles it frees before it returns,
\* whether the compile succeeded or not: across each preg_check call the
\* set of live compiled patterns and the stored pattern stay as they were,
\* and the copy of the pattern text is freed too.
C14_RowPatternFreed ==
    [][(last'.op = "check" /\ nrows' = nrows + 1) =>
          /\ LivePatterns(heap') = LivePatterns(heap)
          /\ ctx' = ctx
          /\ \A i \in 1..Len(heap') :
                heap'[i].kind \in {"pcre", "val"} => heap'[i].frees <= 1
          /\ \A i \in (Len(heap) + 1)..Len(heap') : heap'[i].frees = 1]_vars

C14_Witness ==
    /\ last.op = "check" /\ out.value = 1 /\ nrows = MaxRows
    /\ ctx.re # NULL /\ LivePatterns(heap) = {ctx.re}
    /\ Cardinality(Blocks("pcre")) = 1 + MaxRows

\* C16: after a pregInit that returned 0, and until deinit, constant_pattern
\* is 1 exactly when the context holds a compiled pattern: a constant
\* pattern that is present gives constant_pattern = 1 with re set, a NULL or
\* non-constant one gives constant_pattern = 0 with re NULL.
C16_ConstantFlagMatchesPattern ==
    (initret.called /\ initret.preg = 0 /\ ndeinit = 0) =>
        /\ (ctx.constant_pattern = 1) <=> (ctx.re # NULL)
        /\ ctx.constant_pattern \in {0, 1}
        /\ (ctx.re # NULL) <=> (args0.const /\ ~args0.null)
        /\ ctx.re # NULL =>
              (heap[ctx.re].kind = "pcre" /\ heap[ctx.re].frees = 0)

C16_Witness ==
    /\ initret.called /\ initret.preg = 0 /\ ndeinit = 0
    /\ nrows = MaxRows /\ udf = "string"
    /\ ctx.constant_pattern = 1 /\ ctx.re # NULL

\* C17: when the allocation that would grow the return buffer fails,
\* pregCopyToReturnBuffer returns -1 and leaves the buffer and its recorded
\* capacity as they were, nothing freed and nothing replaced, and
\* pregMoveToReturnValues reports error = 1 with length 0.
C17_GrowthFailureKeepsBuffer ==
    [][(last'.op \in {"move", "copy"} /\ ~last'.growOk
          /\ nrows' = nrows + 1 /\ phase' # "crashed") =>
          /\ ctx' = ctx
          /\ \A i \in Blocks("buffer") : heap'[i] = heap[i]
          /\ Cardinality({i \in 1..Len(heap') : heap'[i].kind = "buffer"})
                = Cardinality(Blocks("buffer"))
          /\ last'.op = "copy" => out'.value = -1
          /\ last'.op = "move" =>
                /\ out'.error = 1 /\ out'.length = 0
                /\ out'.is_null = (IF initid.maybe_null THEN 1 ELSE 0)
                /\ out'.ptr = (IF initid.maybe_null THEN NULL
                               ELSE ctx.return_buffer)]_vars

C17_Witness ==
    /\ last.op = "move" /\ ~last.growOk /\ phase = "ready"
    /\ out.error = 1 /\ out.length = 0
    /\ ctx.return_buffer # NULL /\ heap[ctx.return_buffer].frees = 0
    /\ ctx.return_buffer_size < last.s_len + 1
    /\ Cardinality(Blocks("buffer")) = 2

\* C18: pregSkipToOccurence makes no more match attempts than the occurence
\* it was asked for, none when that is 0 or less, and stops at the first
\* attempt that does not match.
C18_AttemptsBounded ==
    wpc \in {"loop", "exit", "done"} =>
        /\ attempts <= Max(occ0, 0)
        /\ (wpc = "loop" /\ attempts > 0) => rc > 0

\* C20: the step limits are set in the extra block before every match
\* attempt: whenever pregSkipToOccurence is at its loop, about to call
\* pcre_exec or past it, the block it hands over was zeroed and has both
\* limits marked as set, so no attempt runs past the pattern's step budget.
C20_LimitsSetBeforeExec ==
    wpc \in {"loop", "exit", "done"} =>
        /\ extra.init
        /\ {"MATCH_LIMIT", "MATCH_LIMIT_RECURSION"} \subseteq extra.flags
        /\ (attempts > 0 /\ ~re.anchored /\ rc = PCRE_ERROR_NOMATCH)
              => Len(subject) - subject_offset + 1 <= re.limit

C20_Witness ==
    /\ wpc = "done" /\ attempts >= 2 /\ rc = PCRE_ERROR_MATCHLIMIT
    /\ "MATCH_LIMIT" \in extra.flags

\* C19: pregGetGroupNum resolves the group reference in the argument at
\* index argnum, whatever argnum is: 0 when that argument is omitted, the
\* integer when it is one, for a name the number the pattern's name table
\* gives, and -1 when the name is not found or cannot be duplicated.
C19_GroupFromArgnum ==
    LET a == gcall.args
        k == gcall.argnum
    IN (gpc = "done" /\ (k < Len(a) => ~a[k + 1].null)) =>
          /\ ~gret.crash
          /\ gret.num =
                IF k >= Len(a) THEN 0
                ELSE IF a[k + 1].type = "INT" THEN a[k + 1].int
                ELSE IF ~gcall.dupOk THEN 0 - 1
                ELSE IF pcre_get_stringnumber(gcall.ncap, a[k + 1].name) < 0
                THEN 0 - 1
                ELSE pcre_get_stringnumber(gcall.ncap, a[k + 1].name)

\* C23: in pregSkipToOccurence each match attempt that succeeds strictly
\* advances the search offset, so the matches counted as occurrences are
\* pairwise distinct, also for a pattern that can match the empty string.
C23_MatchAdvancesOffset ==
    [][(wpc = "loop" /\ wpc' = "loop") =>
          /\ rc' > 0
          /\ subject_offset' > subject_offset]_vars

\* pregInit returned 0 and the deinit hook has not run
ContextInUse == initret.called /\ initret.preg = 0 /\ ndeinit = 0

\* C22: in every state between a successful init and deinit,
\* return_buffer_size is the size of the block return_buffer points to and
\* every byte written (the reset of byte 0, the l bytes copied, the zero byte
\* at index l) lies inside that block; the recorded size never decreases.
C22_BufferSizeAndWritesInBounds ==
    [][(initret'.called /\ initret'.preg = 0 /\ ndeinit' = 0) =>
          /\ phase' # "crashed"
          /\ ctx'.return_buffer # NULL
          /\ heap'[ctx'.return_buffer].kind = "buffer"
          /\ heap'[ctx'.return_buffer].frees = 0
          /\ heap'[ctx'.return_buffer].size = ctx'.return_buffer_size
          /\ Len(bufdata') <= ctx'.return_buffer_size
          /\ ContextInUse
                => ctx'.return_buffer_size >= ctx.return_buffer_size]_vars

\* C21: every read or write of args->args, args->lengths and args->arg_type
\* that pregInit and preg_check make uses an index smaller than arg_count:
\* no access outside the arrays has been made in any state of a query.
C21_ArgumentIndexesBelowArgCount == oob = {}

====
